---- MODULE Spec2Model ----
(***************************************************************************)
(* A model of src/image_export.py: the dataset assembly pipeline that      *)
(* exports the views of HIF containers as JPEG frames, shuffles and splits *)
(* the exported pool into train/test, classifies an annotated corpus into  *)
(* normal/abnormal, and merges files between directories.                  *)
(*                                                                         *)
(* The file system is modelled by two variables: `exists`, the set of      *)
(* directory paths that exist, and `fs`, which gives for every directory   *)
(* the regular files directly in it as a map from base name to content.    *)
(* Each group of operations has a specification of its own (SpecCopy,      *)
(* SpecSplit, SpecExport, SpecClassify, SpecCrop, SpecWorkflow); Spec is   *)
(* their union.                                                            *)
(***************************************************************************)
EXTENDS Integers, Sequences, FiniteSets, TLC

VARIABLES
    mode,       \* which group of operations this behaviour exercises
    fs,         \* directory path -> (base name -> content) of its regular files
    exists,     \* the directory paths that exist
    ioLog,      \* the kinds of file I/O performed so far
    \* ---- one call of copy_files (its arguments and loop position)
    cpSrc, cpDest, cpFiles, cpDel, cpOw,
    cpI,        \* 1-based index of the loop at line 120
    cpPc,       \* "idle" | "loop" | "remove" | "done" | "failed"
    cpCalls,    \* calls of copy_files started so far
    cpCopied,   \* names whose shutil.copyfile completed in this call
    fs0,        \* fs when the current call started
    exists0,    \* exists when the current call started
    \* ---- the containers
    views,      \* container name -> number of views it decodes to
    \* ---- split_exported_sd3_hif as called by __main__
    spPc,       \* "start" | "exported" | "done" | "assert_failed"
    spRuns,     \* completed runs of split_exported_sd3_hif
    spDq, spPn, \* discard and portion, as numerators over Den
    spFiles,    \* `files` after the two shuffles (line 153): the N input names
    first_half, second_half, files2del,     \* the lists of lines 157-164
    spAfter1,   \* fs when the first run of the split returned
    \* ---- export_sd3_hif_form_dir and export, one step at a time
    exPc,       \* "idle" | "check" | "write" | "returned" | "finished" | "killed"
    exK,        \* index in the crawl order of the container being exported
    exI,        \* view_idx of the loop at line 69
    exRet,      \* what the last call of export returned
    exRuns,     \* runs of export_sd3_hif_form_dir started so far
    exReturned, \* the containers on which a call of export has returned
    exKilled,   \* whether a run was interrupted
    exMoves,    \* exported files moved into train or test so far
    exFs0,      \* fs when the current call of export started
    \* ---- the annotation classifier
    anns,       \* the corpus: file index -> its annotation (file name, objects)
    anomaly,    \* anomaly_classes
    clPc,       \* "start" | "binary" | "perclass"
    normal_train, abnormal_train,   \* the lists of lines 198-199
    normal_files, abnormal_files,   \* the dictionaries of lines 323-324
    \* ---- center_crop
    imgH, imgW, \* img.shape[0], img.shape[1]
    crPc,       \* "start" | "done"
    crop_img,   \* the window returned: its top-left corner and its size
    \* ---- the combined workflow of __main__ (lines 442-449)
    wfPc,       \* the statement of the workflow that runs next
    normal_test, abnormal_test      \* the lists of lines 200-201

copyVars == <<cpSrc, cpDest, cpFiles, cpDel, cpOw, cpI, cpPc, cpCalls, cpCopied,
              fs0, exists0>>

splitVars == <<spPc, spRuns, spDq, spPn, spFiles, first_half, second_half,
               files2del, spAfter1>>

exportVars == <<exPc, exK, exI, exRet, exRuns, exReturned, exKilled, exMoves,
                exFs0>>

classVars == <<anns, anomaly, clPc, normal_train, abnormal_train,
               normal_files, abnormal_files>>

cropVars == <<imgH, imgW, crPc, crop_img>>

wfVars == <<wfPc, normal_test, abnormal_test>>

fsVars == <<fs, exists, ioLog, views>>

vars == <<mode, fsVars, copyVars, splitVars, exportVars, classVars, cropVars,
          wfVars>>

\* What the steps of copy_files leave alone.
otherCopy == <<views, splitVars, exportVars, classVars, cropVars, wfVars>>

\* What the steps of the split workflow leave alone.
otherSplit == <<copyVars, exportVars, classVars, cropVars, wfVars>>

\* What the steps of the exporter leave alone.
otherExport == <<copyVars, splitVars, classVars, cropVars, wfVars>>

\* What the steps of the combined workflow leave alone.
otherWorkflow == <<mode, views, ioLog, copyVars, exportVars, cropVars,
                   spPc, spRuns, spDq, spPn, spAfter1,
                   anns, anomaly, clPc, normal_files, abnormal_files>>

\* What the classifier and center_crop leave alone.
otherClass == <<fsVars, copyVars, splitVars, exportVars, cropVars, wfVars>>
otherCrop == <<fsVars, copyVars, splitVars, exportVars, classVars, wfVars>>

(***************************************************************************)
(* Bounds of the model.                                                    *)
(***************************************************************************)
MaxNames == 2       \* distinct base names in the copy specification
MaxList  == 2       \* length of the `files` argument of copy_files
MaxCalls == 2       \* calls of copy_files in one behaviour
MaxContainers == 2  \* HIF containers under the HIF root
MaxViews == 2       \* views one container decodes to
DyadicBits == 1     \* discard and portion are multiples of 1 / 2^DyadicBits
MaxDiscardCount == 2    \* largest discard given as a count
MaxRuns == 2        \* runs of split_exported_sd3_hif in one behaviour
MaxExportRuns == 3  \* runs of export_sd3_hif_form_dir in one behaviour
MaxMoves == 1       \* exported files moved into train or test between runs
MaxImages == 2      \* annotated images in the corpus
MaxObjects == 2     \* objects in one annotation
Slack == 3          \* frame sizes lie within Slack of 0, h/2, h and 2h (w likewise)

(***************************************************************************)
(* Paths and the file system.                                              *)
(***************************************************************************)
\* os.path.join(d, n)
Join(d, n) == d \o "/" \o n

EmptyDir == [n \in {} |-> "x"]

FileName(i) == "f" \o ToString(i)
Names == {FileName(i) : i \in 1..MaxNames}

\* The directories that may hold regular files.
FileDirs == {"src", "dst", "exp", "exp/train", "exp/test",
             "ds/train/0.normal", "ds/train/1.abnormal",
             "ds/test/0.normal", "ds/test/1.abnormal",
             "six/train/JPEGImages", "six/train/JPEGImages/sub",
             "six/train/Annotations",
             "six/test/JPEGImages", "six/test/JPEGImages/sub",
             "six/test/Annotations"}

\* os.path.isfile(os.path.join(d, n))
IsFile(f, d, n) == d \in DOMAIN f /\ n \in DOMAIN f[d]

\* os.path.exists(os.path.join(d, n)): a regular file or a directory
PathExists(f, ex, d, n) == IsFile(f, d, n) \/ Join(d, n) \in ex

\* The map m with key n set to content c, and with key n removed.
Put(m, n, c) == [k \in DOMAIN m \cup {n} |-> IF k = n THEN c ELSE m[k]]
Del(m, n) == [k \in DOMAIN m \ {n} |-> m[k]]

\* shutil.copyfile(src/n, dest/n), completed
CopyFileTo(f, src, n, dest) == [f EXCEPT ![dest] = Put(f[dest], n, f[src][n])]

\* shutil.copyfile(src/n, dest/n) that raised part way: the destination was
\* opened for writing (and truncated) and holds an incomplete copy.
PartialCopyTo(f, src, n, dest) == [f EXCEPT ![dest] = Put(f[dest], n, "partial")]

\* os.remove(os.path.join(d, n))
RemoveAt(f, d, n) == [f EXCEPT ![d] = Del(f[d], n)]

\* The overwrite test of line 122 inverted (`and overwrite`).
SkipsExistingInverted(f, ex, dest, n, ow) == PathExists(f, ex, dest, n) /\ ow

\* line 122: the entry is skipped because it exists at the destination
SkipsExisting(f, ex, dest, n, ow) == PathExists(f, ex, dest, n) /\ ~ow

\* lines 116-119: os.makedirs(dest), errors swallowed
Makedirs(ex, dest) == ex \cup {dest}

\* One iteration of the loop at lines 120-128 that raises nothing.
CopyOne(f, ex, src, n, dest, del, ow) ==
    IF SkipsExisting(f, ex, dest, n, ow) THEN f
    ELSE IF IsFile(f, src, n)
         THEN IF del THEN RemoveAt(CopyFileTo(f, src, n, dest), src, n)
                     ELSE CopyFileTo(f, src, n, dest)
         ELSE f

\* copy_files as a whole when nothing raises: the file system after the loop.
RECURSIVE copy_files(_, _, _, _, _, _, _)
copy_files(f, ex, src, files, dest, del, ow) ==
    IF files = <<>> THEN f
    ELSE copy_files(CopyOne(f, ex, src, Head(files), dest, del, ow),
                    ex, src, Tail(files), dest, del, ow)

\* move_files(src, files, dest)
move_files(f, ex, src, files, dest) == copy_files(f, ex, src, files, dest, TRUE, FALSE)


(***************************************************************************)
(* Python's slicing and integer conversions.                               *)
(***************************************************************************)
Min(a, b) == IF a < b THEN a ELSE b
Max(a, b) == IF a > b THEN a ELSE b

\* A slice bound k normalised against length n, as s[k:] and s[:k] do: a
\* negative bound counts from the end, and both are clamped to 0..n.
PyBound(n, k) == IF k < 0 THEN Max(n + k, 0) ELSE Min(k, n)

\* s[a:b]
PySlice(s, a, b) ==
    LET lo == PyBound(Len(s), a)
        hi == PyBound(Len(s), b)
    IN  IF hi > lo THEN SubSeq(s, lo + 1, hi) ELSE <<>>

\* s[:k] and s[k:]
PyTake(s, k) == PySlice(s, 0, k)
PyDrop(s, k) == PySlice(s, k, Len(s))

\* discard and portion are num / Den.  Den is a power of two, so the floats
\* 1. - discard, len * (1. - discard) and len * portion are exact and int()
\* of them is the integer quotient below.
Den == 2 ^ DyadicBits

\* int(n * (1. - discard)), for 0 < discard < 1
KeepOfFraction(n, dq) == (n * (Den - dq)) \div Den

\* int(discard), for discard >= 1
IntOf(dq) == dq \div Den

\* int(n * portion)
PortionOf(n, pn) == (n * pn) \div Den

Range(s) == {s[i] : i \in 1..Len(s)}

\* The orders in which the names of S can be listed.
RECURSIVE Orderings(_)
Orderings(S) ==
    IF S = {} THEN {<<>>}
    ELSE UNION {{<<x>> \o t : t \in Orderings(S \ {x})} : x \in S}

(***************************************************************************)
(* The frame exporter: export and export_sd3_hif_form_dir.                 *)
(***************************************************************************)
HifName(i) == "h" \o ToString(i) \o ".hif"
Containers == {HifName(i) : i \in 1..MaxContainers}
CrawlOrder == [i \in 1..MaxContainers |-> HifName(i)]

\* "%s-%d.jpg" % (os.path.basename(hif_path), view_idx)
FrameName(c, i) == c \o "-" \o ToString(i) \o ".jpg"

\* The idempotency check without lines 59-64: only save_path itself is looked at.
AlreadyExportedFlat(f, ex, dest, c) == PathExists(f, ex, dest, FrameName(c, 0))

\* lines 55-64: frame 0 exists under save_path, save_path/train or save_path/test
AlreadyExported(f, ex, dest, c) ==
    \/ PathExists(f, ex, dest, FrameName(c, 0))
    \/ PathExists(f, ex, Join(dest, "train"), FrameName(c, 0))
    \/ PathExists(f, ex, Join(dest, "test"), FrameName(c, 0))

\* lines 73-78: cv2.imwrite of view i (view 0 center-cropped)
FrameContent(i) == IF i = 0 THEN "cropped" ELSE "frame"
WriteFrame(f, dest, c, i) == [f EXCEPT ![dest] = Put(f[dest], FrameName(c, i), FrameContent(i))]

\* lines 69-78: the views from index i on are written
RECURSIVE WriteFrom(_, _, _, _, _)
WriteFrom(f, dest, c, i, n) ==
    IF i >= n THEN f ELSE WriteFrom(WriteFrame(f, dest, c, i), dest, c, i + 1, n)

\* export(hif_path, save_path), uninterrupted: the file system it leaves and
\* the value it returns
export(f, ex, c, n, dest) ==
    IF AlreadyExported(f, ex, dest, c) THEN f ELSE WriteFrom(f, dest, c, 0, n)
exportReturn(f, ex, c, n, dest) ==
    IF AlreadyExported(f, ex, dest, c) THEN 0 ELSE n

\* lines 108-109: the loop over the crawled containers, from the k-th on
RECURSIVE ExportFrom(_, _, _, _, _)
ExportFrom(f, ex, v, k, dest) ==
    IF k > Len(CrawlOrder) THEN f
    ELSE ExportFrom(export(f, ex, CrawlOrder[k], v[CrawlOrder[k]], dest),
                    ex, v, k + 1, dest)

\* line 98: shutil.rmtree(d), taking the train and test subdirectories along
Rmtree(f, d) ==
    [x \in DOMAIN f |-> IF x \in {d, Join(d, "train"), Join(d, "test")}
                        THEN EmptyDir ELSE f[x]]
RmtreeDirs(ex, d) == ex \ {d, Join(d, "train"), Join(d, "test")}

(***************************************************************************)
(* The shuffle/split engine: split_exported_sd3_hif.                       *)
(***************************************************************************)
\* os.listdir(d): the regular files of d and its subdirectories
SubNames == {"train", "test"}
ListDir(f, ex, d) == DOMAIN f[d] \cup {n \in SubNames : Join(d, n) \in ex}

\* random.seed(47); random.shuffle(x); random.seed(50); random.shuffle(x):
\* position i of the result holds element ShufflePerm[n + 1][i] of a list of
\* n elements (CPython's Mersenne Twister, lists of up to 12 elements).
ShufflePerm ==
    << <<>>,
       <<1>>,
       <<1, 2>>,
       <<3, 2, 1>>,
       <<4, 1, 2, 3>>,
       <<3, 4, 5, 2, 1>>,
       <<2, 5, 3, 1, 6, 4>>,
       <<6, 3, 4, 2, 1, 7, 5>>,
       <<7, 8, 5, 2, 4, 3, 1, 6>>,
       <<4, 1, 6, 3, 9, 5, 8, 7, 2>>,
       <<2, 5, 1, 9, 3, 10, 6, 4, 8, 7>>,
       <<5, 1, 2, 9, 10, 6, 7, 4, 3, 11, 8>>,
       <<1, 9, 2, 7, 10, 11, 5, 6, 4, 3, 12, 8>> >>

\* lines 150-153
Shuffle(s) == [i \in 1..Len(s) |-> s[ShufflePerm[Len(s) + 1][i]]]

\* lines 155-162: `files` after the discard
KeptFiles(shuffled, dq) ==
    IF dq < Den THEN PyTake(shuffled, KeepOfFraction(Len(shuffled), dq))
                ELSE PyTake(shuffled, IntOf(dq))

\* lines 158 and 162: files2del, sliced from `files` after line 157 (161)
\* has already rebound `files` to the kept prefix
Files2Del(shuffled, dq) ==
    LET files == KeptFiles(shuffled, dq)
    IN  IF dq < Den THEN PyDrop(files, KeepOfFraction(Len(files), dq))
                    ELSE PyDrop(files, IntOf(dq))

\* lines 163-164
FirstHalf(shuffled, dq, pn) ==
    LET files == KeptFiles(shuffled, dq) IN PyTake(files, PortionOf(Len(files), pn))
SecondHalf(shuffled, dq, pn) ==
    LET files == KeptFiles(shuffled, dq) IN PyDrop(files, PortionOf(Len(files), pn))

\* lines 172-173: the loop deleting the discarded files
RECURSIVE DeleteFiles(_, _, _)
DeleteFiles(f, d, files) ==
    IF files = <<>> THEN f
    ELSE DeleteFiles(IF IsFile(f, d, Head(files)) THEN RemoveAt(f, d, Head(files)) ELSE f,
                     d, Tail(files))

\* lines 165-173: the two moves and the deletion, given the three lists
MoveAndDelete(f, ex, src, first, second, del) ==
    LET ex1 == Makedirs(ex, Join(src, "train"))
        f1  == move_files(f, ex1, src, first, Join(src, "train"))
        ex2 == Makedirs(ex1, Join(src, "test"))
        f2  == move_files(f1, ex2, src, second, Join(src, "test"))
    IN  DeleteFiles(f2, src, del)

\* lines 163-173 for discard dq / Den and portion pn / Den
SplitMoves(f, ex, src, shuffled, dq, pn) ==
    MoveAndDelete(f, ex, src, FirstHalf(shuffled, dq, pn),
                  SecondHalf(shuffled, dq, pn), Files2Del(shuffled, dq))

SplitIdle ==
    /\ spPc = "start" /\ spRuns = 0 /\ spDq = 0 /\ spPn = 0
    /\ spFiles = <<>> /\ first_half = <<>> /\ second_half = <<>> /\ files2del = <<>>
    /\ spAfter1 = [d \in FileDirs |-> EmptyDir]

ClassIdle ==
    /\ anns = <<>> /\ anomaly = <<>> /\ clPc = "start"
    /\ normal_train = <<>> /\ abnormal_train = <<>>
    /\ normal_files = EmptyDir /\ abnormal_files = EmptyDir

CropIdle ==
    /\ imgH = 0 /\ imgW = 0 /\ crPc = "start"
    /\ crop_img = [top |-> 0, left |-> 0, rows |-> 0, cols |-> 0]

FsIdle ==
    /\ fs = [d \in FileDirs |-> EmptyDir]
    /\ exists = {}
    /\ ioLog = {}
    /\ views = [c \in Containers |-> 0]

ExportIdle ==
    /\ exPc = "idle" /\ exK = 1 /\ exI = 0 /\ exRet = 0 /\ exRuns = 0
    /\ exReturned = {} /\ exKilled = FALSE /\ exMoves = 0
    /\ exFs0 = [d \in FileDirs |-> EmptyDir]

WfIdle == wfPc = "start" /\ normal_test = <<>> /\ abnormal_test = <<>>

CopyIdle ==
    /\ cpSrc = "src" /\ cpDest = "dst" /\ cpFiles = <<>>
    /\ cpDel = FALSE /\ cpOw = FALSE
    /\ cpI = 1 /\ cpPc = "idle" /\ cpCalls = 0 /\ cpCopied = {}
    /\ fs0 = fs /\ exists0 = exists

(***************************************************************************)
(* copy_files, one step at a time, with shutil.copyfile allowed to raise.  *)
(***************************************************************************)
SeqsUpTo(S, n) == UNION {[1..k -> S] : k \in 0..n}

\* A source entry is absent, a regular file with content "A", or a directory;
\* a destination entry is absent or a regular file with content "B".
InitCopy ==
    /\ mode = "copy"
    /\ \E srcFiles \in SUBSET Names, dstFiles \in SUBSET Names :
        \E srcDirs \in SUBSET (Names \ srcFiles) :
            /\ fs = [d \in FileDirs |->
                        IF d = "src" THEN [n \in srcFiles |-> "A"]
                        ELSE IF d = "dst" THEN [n \in dstFiles |-> "B"]
                        ELSE EmptyDir]
            /\ exists = {"src"} \cup {Join("src", n) : n \in srcDirs}
                          \cup (IF dstFiles = {} THEN {} ELSE {"dst"})
    /\ ioLog = {}
    /\ CopyIdle
    /\ views = [c \in Containers |-> 0]
    /\ SplitIdle
    /\ ExportIdle
    /\ ClassIdle
    /\ CropIdle
    /\ WfIdle

\* lines 113-119: the call and os.makedirs(dest)
CopyCall(files, del, ow) ==
    /\ mode = "copy" /\ cpPc = "idle"
    /\ cpFiles' = files /\ cpDel' = del /\ cpOw' = ow
    /\ exists' = Makedirs(exists, cpDest)
    /\ fs0' = fs /\ exists0' = exists
    /\ cpI' = 1 /\ cpPc' = "loop" /\ cpCalls' = cpCalls + 1 /\ cpCopied' = {}
    /\ UNCHANGED otherCopy
    /\ UNCHANGED <<mode, fs, ioLog, cpSrc, cpDest>>

\* The same call made again after it returned or raised (a re-run).
CopyRerun ==
    /\ mode = "copy" /\ cpPc \in {"done", "failed"} /\ cpCalls < MaxCalls
    /\ exists' = Makedirs(exists, cpDest)
    /\ fs0' = fs /\ exists0' = exists
    /\ cpI' = 1 /\ cpPc' = "loop" /\ cpCalls' = cpCalls + 1 /\ cpCopied' = {}
    /\ UNCHANGED otherCopy
    /\ UNCHANGED <<mode, fs, ioLog, cpSrc, cpDest, cpFiles, cpDel, cpOw>>

CurFile == cpFiles[cpI]

\* lines 122-123: continue
CopySkipExisting ==
    /\ mode = "copy" /\ cpPc = "loop" /\ cpI <= Len(cpFiles)
    /\ SkipsExisting(fs, exists, cpDest, CurFile, cpOw)
    /\ cpI' = cpI + 1
    /\ UNCHANGED otherCopy
    /\ UNCHANGED <<mode, fs, exists, ioLog, cpSrc, cpDest, cpFiles, cpDel, cpOw,
                   cpPc, cpCalls, cpCopied, fs0, exists0>>

\* line 125 false: the source path is not a regular file
CopySkipNotFile ==
    /\ mode = "copy" /\ cpPc = "loop" /\ cpI <= Len(cpFiles)
    /\ ~SkipsExisting(fs, exists, cpDest, CurFile, cpOw)
    /\ ~IsFile(fs, cpSrc, CurFile)
    /\ cpI' = cpI + 1
    /\ UNCHANGED otherCopy
    /\ UNCHANGED <<mode, fs, exists, ioLog, cpSrc, cpDest, cpFiles, cpDel, cpOw,
                   cpPc, cpCalls, cpCopied, fs0, exists0>>

\* line 126: shutil.copyfile completes
CopyFile ==
    /\ mode = "copy" /\ cpPc = "loop" /\ cpI <= Len(cpFiles)
    /\ ~SkipsExisting(fs, exists, cpDest, CurFile, cpOw)
    /\ IsFile(fs, cpSrc, CurFile)
    /\ fs' = CopyFileTo(fs, cpSrc, CurFile, cpDest)
    /\ ioLog' = ioLog \cup {"copy"}
    /\ cpCopied' = cpCopied \cup {CurFile}
    /\ IF cpDel THEN cpPc' = "remove" /\ cpI' = cpI
                ELSE cpPc' = "loop" /\ cpI' = cpI + 1
    /\ UNCHANGED otherCopy
    /\ UNCHANGED <<mode, exists, cpSrc, cpDest, cpFiles, cpDel, cpOw, cpCalls,
                   fs0, exists0>>

\* A copy whose source is removed even though shutil.copyfile raised (the
\* os.remove placed in a `finally`).
CopyFailRemoving(f, src, n, dest) ==
    {RemoveAt(f, src, n), RemoveAt(PartialCopyTo(f, src, n, dest), src, n)}

\* The file system after shutil.copyfile raised: nothing written, or an
\* incomplete destination file.  The exception leaves copy_files at once.
CopyFailOutcomes(f, src, n, dest) == {f, PartialCopyTo(f, src, n, dest)}

\* line 126: shutil.copyfile raises; the exception propagates out of copy_files
CopyFail ==
    /\ mode = "copy" /\ cpPc = "loop" /\ cpI <= Len(cpFiles)
    /\ ~SkipsExisting(fs, exists, cpDest, CurFile, cpOw)
    /\ IsFile(fs, cpSrc, CurFile)
    /\ fs' \in CopyFailOutcomes(fs, cpSrc, CurFile, cpDest)
    /\ ioLog' = ioLog \cup {"copy"}
    /\ cpPc' = "failed"
    /\ UNCHANGED otherCopy
    /\ UNCHANGED <<mode, exists, cpSrc, cpDest, cpFiles, cpDel, cpOw, cpI, cpCalls,
                   cpCopied, fs0, exists0>>

\* lines 127-128: os.remove of the file just copied
CopyRemove ==
    /\ mode = "copy" /\ cpPc = "remove"
    /\ fs' = RemoveAt(fs, cpSrc, CurFile)
    /\ ioLog' = ioLog \cup {"remove"}
    /\ cpPc' = "loop" /\ cpI' = cpI + 1
    /\ UNCHANGED otherCopy
    /\ UNCHANGED <<mode, exists, cpSrc, cpDest, cpFiles, cpDel, cpOw, cpCalls,
                   cpCopied, fs0, exists0>>

\* line 129: the loop is exhausted and copy_files returns
CopyReturn ==
    /\ mode = "copy" /\ cpPc = "loop" /\ cpI > Len(cpFiles)
    /\ cpPc' = "done"
    /\ UNCHANGED otherCopy
    /\ UNCHANGED <<mode, fs, exists, ioLog, cpSrc, cpDest, cpFiles, cpDel, cpOw,
                   cpI, cpCalls, cpCopied, fs0, exists0>>

NextCopy ==
    \/ \E files \in SeqsUpTo(Names, MaxList), del \in BOOLEAN, ow \in BOOLEAN :
          CopyCall(files, del, ow)
    \/ CopyRerun
    \/ CopySkipExisting
    \/ CopySkipNotFile
    \/ CopyFile
    \/ CopyFail
    \/ CopyRemove
    \/ CopyReturn

SpecCopy == InitCopy /\ [][NextCopy]_vars

(***************************************************************************)
(* The combined workflow of __main__ up to the split (lines 444-447), and  *)
(* the split run again on the same directory.                              *)
(***************************************************************************)
DiscardNums == (-1)..(MaxDiscardCount * Den)
PortionNums == 0..Den

InitSplit ==
    /\ mode = "split"
    /\ fs = [d \in FileDirs |-> EmptyDir]
    /\ exists = {"exp"}
    /\ ioLog = {}
    /\ views \in [Containers -> 0..MaxViews]
    /\ CopyIdle
    /\ SplitIdle
    /\ ExportIdle
    /\ ClassIdle
    /\ CropIdle
    /\ WfIdle

\* line 446: export_sd3_hif_form_dir(..., remove_before_export=True)
ExportDir ==
    /\ mode = "split" /\ spPc = "start"
    /\ fs' = ExportFrom(Rmtree(fs, "exp"), {"exp"}, views, 1, "exp")
    /\ exists' = RmtreeDirs(exists, "exp") \cup {"exp"}
    /\ ioLog' = ioLog \cup {"rmtree", "mkdir"}
                     \cup (IF \E c \in Containers : views[c] > 0 THEN {"write"} ELSE {})
    /\ spPc' = "exported"
    /\ UNCHANGED <<mode, views, spRuns, spDq, spPn, spFiles, first_half,
                   second_half, files2del, spAfter1>>
    /\ UNCHANGED otherSplit

\* split_exported_sd3_hif("exp", pn/Den, dq/Den) with os.listdir returning
\* the entries in the order `listing`
SplitBody(listing, dq, pn) ==
    LET shuffled == Shuffle(listing) IN
    /\ spFiles' = shuffled
    /\ spDq' = dq /\ spPn' = pn
    /\ IF dq > 0
       THEN /\ first_half' = FirstHalf(shuffled, dq, pn)
            /\ second_half' = SecondHalf(shuffled, dq, pn)
            /\ files2del' = Files2Del(shuffled, dq)
            /\ fs' = SplitMoves(fs, exists, "exp", shuffled, dq, pn)
            /\ exists' = Makedirs(Makedirs(exists, "exp/train"), "exp/test")
            /\ ioLog' = ioLog \cup {"listdir", "makedirs"}
                             \cup (IF fs' # fs THEN {"copy", "remove"} ELSE {})
            /\ spPc' = "done"
            /\ spRuns' = spRuns + 1
            /\ spAfter1' = IF spRuns = 0 THEN fs' ELSE spAfter1
       ELSE \* line 154: the assertion fails, after the listing and the shuffles
            /\ ioLog' = ioLog \cup {"listdir"}
            /\ spPc' = "assert_failed"
            /\ UNCHANGED <<fs, exists, first_half, second_half, files2del,
                           spRuns, spAfter1>>
    /\ UNCHANGED <<mode, views>>
    /\ UNCHANGED otherSplit

\* line 447: the split, called on the exported pool
SplitCall(listing, dq, pn) ==
    /\ mode = "split" /\ spPc = "exported"
    /\ SplitBody(listing, dq, pn)

\* The split run again on the same directory with the same arguments
SplitRerun(listing) ==
    /\ mode = "split" /\ spPc = "done" /\ spRuns < MaxRuns
    /\ SplitBody(listing, spDq, spPn)

NextSplit ==
    \/ ExportDir
    \/ \E dq \in DiscardNums, pn \in PortionNums :
          \E listing \in Orderings(ListDir(fs, exists, "exp")) :
              SplitCall(listing, dq, pn)
    \/ \E listing \in Orderings(ListDir(fs, exists, "exp")) : SplitRerun(listing)

SpecSplit == InitSplit /\ [][NextSplit]_vars

(***************************************************************************)
(* export_sd3_hif_form_dir(hif, "exp") without remove_before_export, one   *)
(* file write at a time; a run may be interrupted between any two steps    *)
(* and run again, and between runs exported files may be moved into the    *)
(* train and test subdirectories, as the split does.                       *)
(***************************************************************************)
InitExport ==
    /\ mode = "export"
    /\ fs = [d \in FileDirs |-> EmptyDir]
    /\ exists = {}
    /\ ioLog = {}
    /\ views \in [Containers -> 0..MaxViews]
    /\ CopyIdle
    /\ SplitIdle
    /\ ExportIdle
    /\ ClassIdle
    /\ CropIdle
    /\ WfIdle

CurHif == CrawlOrder[exK]

\* lines 96-107: os.mkdir, the crawl, counter = 0
RunStart ==
    /\ mode = "export" /\ exPc \in {"idle", "finished", "killed"}
    /\ exRuns < MaxExportRuns
    /\ exists' = exists \cup {"exp"}
    /\ exPc' = "check" /\ exK' = 1 /\ exI' = 0 /\ exRuns' = exRuns + 1
    /\ UNCHANGED <<mode, fs, ioLog, views, exRet, exReturned, exKilled, exMoves, exFs0>>
    /\ UNCHANGED otherExport

\* lines 55-64: export returns 0 because frame 0 is already there
ExportSkip ==
    /\ mode = "export" /\ exPc = "check" /\ exK <= Len(CrawlOrder)
    /\ AlreadyExported(fs, exists, "exp", CurHif)
    /\ exFs0' = fs
    /\ exRet' = exportReturn(fs, exists, CurHif, views[CurHif], "exp")
    /\ exPc' = "returned"
    /\ UNCHANGED <<mode, fs, exists, ioLog, views, exK, exI, exRuns, exReturned, exKilled, exMoves>>
    /\ UNCHANGED otherExport

\* lines 66-68: the container is decoded
ExportDecode ==
    /\ mode = "export" /\ exPc = "check" /\ exK <= Len(CrawlOrder)
    /\ ~AlreadyExported(fs, exists, "exp", CurHif)
    /\ exFs0' = fs
    /\ exPc' = "write" /\ exI' = 0
    /\ UNCHANGED <<mode, fs, exists, ioLog, views, exK, exRet, exRuns, exReturned, exKilled, exMoves>>
    /\ UNCHANGED otherExport

\* lines 69-78: one view is written
ExportWrite ==
    /\ mode = "export" /\ exPc = "write" /\ exI < views[CurHif]
    /\ fs' = WriteFrame(fs, "exp", CurHif, exI)
    /\ ioLog' = ioLog \cup {"write"}
    /\ exI' = exI + 1
    /\ UNCHANGED <<mode, exists, views, exPc, exK, exRet, exRuns, exReturned, exKilled, exMoves, exFs0>>
    /\ UNCHANGED otherExport

\* line 79: return len(views_matlum)
ExportReturn ==
    /\ mode = "export" /\ exPc = "write" /\ exI >= views[CurHif]
    /\ exRet' = exportReturn(exFs0, exists, CurHif, views[CurHif], "exp")
    /\ exPc' = "returned"
    /\ UNCHANGED <<mode, fs, exists, ioLog, views, exK, exI, exRuns, exReturned, exKilled, exMoves, exFs0>>
    /\ UNCHANGED otherExport

\* lines 108-109: the loop goes on to the next container
ExportNext ==
    /\ mode = "export" /\ exPc = "returned"
    /\ exReturned' = exReturned \cup {CurHif}
    /\ exK' = exK + 1 /\ exPc' = "check"
    /\ UNCHANGED <<mode, fs, exists, ioLog, views, exI, exRet, exRuns, exKilled, exMoves, exFs0>>
    /\ UNCHANGED otherExport

\* line 110: the loop is exhausted
RunEnd ==
    /\ mode = "export" /\ exPc = "check" /\ exK > Len(CrawlOrder)
    /\ exPc' = "finished"
    /\ UNCHANGED <<mode, fs, exists, ioLog, views, exK, exI, exRet, exRuns, exReturned,
                   exKilled, exMoves, exFs0>>
    /\ UNCHANGED otherExport

\* The process is stopped during a run.
Interrupt ==
    /\ mode = "export" /\ exPc \in {"check", "write", "returned"}
    /\ exPc' = "killed" /\ exKilled' = TRUE
    /\ UNCHANGED <<mode, fs, exists, ioLog, views, exK, exI, exRet, exRuns, exReturned, exMoves, exFs0>>
    /\ UNCHANGED otherExport

\* lines 168-169 between two runs: move_files of one exported file into
\* the train or test subdirectory
MoveToSub(n, sub) ==
    /\ mode = "export" /\ exPc = "finished" /\ exMoves < MaxMoves
    /\ IsFile(fs, "exp", n)
    /\ exists' = Makedirs(exists, Join("exp", sub))
    /\ fs' = move_files(fs, exists', "exp", <<n>>, Join("exp", sub))
    /\ ioLog' = ioLog \cup {"copy", "remove"}
    /\ exMoves' = exMoves + 1
    /\ UNCHANGED <<mode, views, exPc, exK, exI, exRet, exRuns, exReturned, exKilled, exFs0>>
    /\ UNCHANGED otherExport

NextExport ==
    \/ RunStart
    \/ ExportSkip
    \/ ExportDecode
    \/ ExportWrite
    \/ ExportReturn
    \/ ExportNext
    \/ RunEnd
    \/ Interrupt
    \/ \E n \in DOMAIN fs["exp"], sub \in SubNames : MoveToSub(n, sub)

SpecExport == InitExport /\ [][NextExport]_vars

(***************************************************************************)
(* Claims about export.                                                    *)
(***************************************************************************)
\* Every exported file under save_path, save_path/train and save_path/test.
TreeNames(f) == DOMAIN f["exp"] \cup DOMAIN f["exp/train"] \cup DOMAIN f["exp/test"]

AllFrames == {FrameName(c, i) : c \in Containers, i \in 0..(MaxViews - 1)}
FramesOf(v) == {n \in AllFrames : \E c \in Containers : \E i \in 0..(v[c] - 1) : n = FrameName(c, i)}

\* C4: a call of export on a container of at least one view, made after an
\* earlier call on the same container and destination returned, returns 0
\* and writes nothing: the destination is as it was when the call started,
\* also when exported files were moved into train or test in between.
C4_SecondExportNoOp ==
    (mode = "export" /\ exPc = "returned"
        /\ CurHif \in exReturned /\ views[CurHif] >= 1) =>
        exRet = 0 /\ fs = exFs0

\* C4 witness: the second call has returned on a container whose frame 0
\* was moved into a subdirectory after the first call.
C4_Witness ==
    /\ mode = "export" /\ exPc = "returned"
    /\ CurHif \in exReturned /\ views[CurHif] >= 1
    /\ ~IsFile(fs, "exp", FrameName(CurHif, 0))
    /\ IsFile(fs, "exp/train", FrameName(CurHif, 0))

\* C9: when a run that follows an interrupted run finishes, the destination
\* holds every frame of every container.
C9_ResumeCompletes ==
    (mode = "export" /\ exPc = "finished" /\ exKilled) =>
        FramesOf(views) \subseteq TreeNames(fs)

(***************************************************************************)
(* Claims about split_exported_sd3_hif.                                    *)
(***************************************************************************)
\* keep_count of the N input names, as the specification computes it
KeepCount(n, dq) == IF dq < Den THEN KeepOfFraction(n, dq) ELSE Min(IntOf(dq), n)

\* C1: the three sequences the split computes from its N input names
\* (first_half, second_half, files2del) are pairwise disjoint, together hold
\* every input name exactly once, and files2del has N - keep_count names.
C1_SplitPartition ==
    (mode = "split" /\ spPc = "done") =>
        /\ Range(first_half) \cap Range(second_half) = {}
        /\ Range(first_half) \cap Range(files2del) = {}
        /\ Range(second_half) \cap Range(files2del) = {}
        /\ Range(first_half) \cup Range(second_half) \cup Range(files2del) = Range(spFiles)
        /\ Len(first_half) + Len(second_half) + Len(files2del) = Len(spFiles)
        /\ Len(files2del) = Len(spFiles) - KeepCount(Len(spFiles), spDq)

\* C5: when the split fails on discard <= 0, no directory has been listed
\* and no file has been exported, moved, copied or deleted.
C5_AssertBeforeIo ==
    (mode = "split" /\ spPc = "assert_failed") => ioLog = {}

\* C8: a second run of the split on the directory the first run completed
\* on leaves train and test holding the files they held after the first run.
C8_RerunChangesNothing ==
    (mode = "split" /\ spPc = "done" /\ spRuns = 2) =>
        /\ DOMAIN fs["exp/train"] = DOMAIN spAfter1["exp/train"]
        /\ DOMAIN fs["exp/test"] = DOMAIN spAfter1["exp/test"]
        /\ DOMAIN fs["exp"] = DOMAIN spAfter1["exp"]

(***************************************************************************)
(* Claims about copy_files.                                                *)
(***************************************************************************)
\* The regular files of directory d at the start of the current call.
FilesAtCall(d) == DOMAIN fs0[d]

\* C2: with delete_at_source set, a source file is removed only after its
\* own copy completed: every file that was at the source when the call
\* started is still there unchanged, or its copy completed in this call and
\* the destination holds its full content; and when shutil.copyfile raises,
\* the file being copied is still at the source.
C2_MoveNeverLoses ==
    (mode = "copy" /\ cpPc # "idle" /\ cpDel) =>
        /\ \A n \in FilesAtCall(cpSrc) :
              \/ IsFile(fs, cpSrc, n) /\ fs[cpSrc][n] = fs0[cpSrc][n]
              \/ /\ n \in cpCopied
                 /\ IsFile(fs, cpDest, n) /\ fs[cpDest][n] = fs0[cpSrc][n]
        /\ (cpPc = "failed" =>
               IsFile(fs, cpSrc, CurFile) /\ fs[cpSrc][CurFile] = fs0[cpSrc][CurFile])

\* C2 witness: a move in which one file was moved (copied, then removed at
\* the source) and the copy of another file then raised.
C2_Witness ==
    /\ mode = "copy" /\ cpDel /\ cpPc = "failed"
    /\ \E n \in FilesAtCall(cpSrc) : ~IsFile(fs, cpSrc, n)
    /\ IsFile(fs, cpDest, CurFile) /\ fs[cpDest][CurFile] = "partial"

\* C3: with overwrite unset, a file that was at the destination when the call
\* started keeps its content and, under move semantics too, its source
\* counterpart stays; an entry whose source path is not a regular file
\* creates nothing at the destination and raises nothing.
C3_NoOverwriteFrame ==
    (mode = "copy" /\ cpPc # "idle" /\ ~cpOw) =>
        /\ \A n \in FilesAtCall(cpDest) :
              /\ IsFile(fs, cpDest, n) /\ fs[cpDest][n] = fs0[cpDest][n]
              /\ IsFile(fs0, cpSrc, n) =>
                    IsFile(fs, cpSrc, n) /\ fs[cpSrc][n] = fs0[cpSrc][n]
        /\ \A n \in Names :
              (~IsFile(fs0, cpSrc, n) /\ ~IsFile(fs0, cpDest, n)) =>
                    ~IsFile(fs, cpDest, n)
        /\ (cpPc = "failed" => IsFile(fs0, cpSrc, CurFile))

\* C3 witness: a completed move without overwrite whose list named a file
\* present on both sides and an entry that is a directory at the source.
C3_Witness ==
    /\ mode = "copy" /\ cpPc = "done" /\ ~cpOw /\ cpDel
    /\ \E i \in 1..Len(cpFiles) :
          IsFile(fs0, cpDest, cpFiles[i]) /\ IsFile(fs0, cpSrc, cpFiles[i])
    /\ \E i \in 1..Len(cpFiles) :
          Join(cpSrc, cpFiles[i]) \in exists0 /\ ~IsFile(fs, cpDest, cpFiles[i])

(***************************************************************************)
(* The annotation classifier: the binary mode of copy_sixray_easy and      *)
(* classify_files.                                                         *)
(***************************************************************************)
\* x in s, for strings
Contains(s, x) ==
    \E i \in 1..(Len(s) - Len(x) + 1) : SubSeq(s, i, i + Len(x) - 1) = x

\* The object classes annotations use, and the stems of image file names.
ObjectClasses == {"gun", "knife"}
Stems == {"P", "gun"}
ImageName(stem, i) == stem \o ToString(i) \o ".jpg"

\* The annotations image i may have: a file name and a list of object names.
Annotations(i) ==
    [filename : {ImageName(st, i) : st \in Stems},
     objects : SeqsUpTo(ObjectClasses, MaxObjects)]

\* The text of the annotation file (the bounding boxes and the size hold
\* digits only).
RECURSIVE ObjectsXml(_)
ObjectsXml(objs) ==
    IF objs = <<>> THEN ""
    ELSE "<object><name>" \o Head(objs) \o "</name><bndbox>1</bndbox></object>"
         \o ObjectsXml(Tail(objs))
Xml(a) ==
    "<annotation><filename>" \o a.filename \o "</filename><size>1</size>"
    \o ObjectsXml(a.objects) \o "</annotation>"

\* lines 254-264 and 328-329: set(d["name"] for d in parse_voc_xml(xml)['objects'])
UniqueCls(a) == Range(a.objects)

\* lines 208 and 217: any(map(lambda x: x in s, anomaly_classes))
AnyIn(s, classes) == \E k \in 1..Len(classes) : Contains(s, classes[k])

\* lines 206-208: the test applied to the text read from the annotation file
TextHasAnomaly(a, classes) == AnyIn(Xml(a), classes)

\* lines 204-211: the loop over the files, from the i-th on
RECURSIVE Segregate(_, _, _, _)
Segregate(a, classes, i, acc) ==
    IF i > Len(a) THEN acc
    ELSE Segregate(a, classes, i + 1,
            IF TextHasAnomaly(a[i], classes)
            THEN [acc EXCEPT !.abnormal = Append(@, a[i].filename)]
            ELSE [acc EXCEPT !.normal = Append(@, a[i].filename)])

\* d[cls].append(file) on a defaultdict of lists
AppendTo(d, cls, file) ==
    [k \in DOMAIN d \cup {cls} |->
        IF k = cls THEN Append(IF k \in DOMAIN d THEN d[k] ELSE <<>>, file) ELSE d[k]]

RECURSIVE AppendToAll(_, _, _)
AppendToAll(d, clss, file) ==
    IF clss = {} THEN d
    ELSE LET c == CHOOSE c \in clss : TRUE
         IN  AppendToAll(AppendTo(d, c, file), clss \ {c}, file)

\* The filter of line 332 dropped: an abnormal file filed under all its classes.
AbnormalBucketsUnfiltered(a, classes) == UniqueCls(a)

\* lines 331-332: the buckets an abnormal file is appended to
AbnormalBuckets(a, classes) == {c \in UniqueCls(a) : c \in Range(classes)}

\* line 330: any(map(lambda x: x in unique_cls, anomaly_classes))
ClsHasAnomaly(a, classes) == \E k \in 1..Len(classes) : classes[k] \in UniqueCls(a)

\* lines 325-336: the loop over the files, from the i-th on
RECURSIVE classify_files(_, _, _, _)
classify_files(a, classes, i, acc) ==
    IF i > Len(a) THEN acc
    ELSE classify_files(a, classes, i + 1,
            IF ClsHasAnomaly(a[i], classes)
            THEN [acc EXCEPT !.abnormal =
                        AppendToAll(@, AbnormalBuckets(a[i], classes), a[i].filename)]
            ELSE [acc EXCEPT !.normal = AppendToAll(@, UniqueCls(a[i]), a[i].filename)])

\* anomaly_classes: a tuple of one or more class names
AnomalyTuples == {t \in SeqsUpTo(ObjectClasses, Cardinality(ObjectClasses)) :
                    Len(t) >= 1 /\ \A i, j \in 1..Len(t) : i < j => t[i] # t[j]}

InitClassify ==
    /\ mode = "classify"
    /\ FsIdle
    /\ CopyIdle
    /\ SplitIdle
    /\ ExportIdle
    /\ CropIdle
    /\ WfIdle
    /\ \E n \in 1..MaxImages :
          anns \in {a \in [1..n -> UNION {Annotations(i) : i \in 1..n}] :
                        \A i \in 1..n : a[i] \in Annotations(i)}
    /\ anomaly \in AnomalyTuples
    /\ clPc = "start"
    /\ normal_train = <<>> /\ abnormal_train = <<>>
    /\ normal_files = EmptyDir /\ abnormal_files = EmptyDir

\* lines 198-211: copy_sixray_easy segregates the files in binary mode
SegregateBinary ==
    /\ mode = "classify" /\ clPc = "start"
    /\ LET r == Segregate(anns, anomaly, 1, [normal |-> <<>>, abnormal |-> <<>>])
       IN  normal_train' = r.normal /\ abnormal_train' = r.abnormal
    /\ clPc' = "binary"
    /\ UNCHANGED <<mode, anns, anomaly, normal_files, abnormal_files>>
    /\ UNCHANGED otherClass

\* line 367: classify_files(xml_train, sixray_train_files, anomaly_classes)
ClassifyFiles ==
    /\ mode = "classify" /\ clPc = "start"
    /\ LET r == classify_files(anns, anomaly, 1, [normal |-> EmptyDir, abnormal |-> EmptyDir])
       IN  normal_files' = r.normal /\ abnormal_files' = r.abnormal
    /\ clPc' = "perclass"
    /\ UNCHANGED <<mode, anns, anomaly, normal_train, abnormal_train>>
    /\ UNCHANGED otherClass

NextClassify ==
    \/ SegregateBinary
    \/ ClassifyFiles

SpecClassify == InitClassify /\ [][NextClassify]_vars

(***************************************************************************)
(* Claims about the classifier.                                            *)
(***************************************************************************)
FileNames == {anns[i].filename : i \in 1..Len(anns)}
AnnOf(file) == anns[CHOOSE i \in 1..Len(anns) : anns[i].filename = file]
Count(s, x) == Cardinality({i \in 1..Len(s) : s[i] = x})
Bucket(d, cls) == IF cls \in DOMAIN d THEN d[cls] ELSE <<>>

\* C6: in binary mode every image is in exactly one of the lists normal and
\* abnormal, and it is in abnormal exactly when the set of its object class
\* names meets the anomaly-class set.
C6_BinaryByObjectClasses ==
    (mode = "classify" /\ clPc = "binary") =>
        \A file \in FileNames :
            /\ Count(normal_train, file) + Count(abnormal_train, file) = 1
            /\ Count(abnormal_train, file) = 1
                  <=> UniqueCls(AnnOf(file)) \cap Range(anomaly) # {}

\* C7: in per-class mode a file whose classes meet the anomaly set is in the
\* abnormal bucket of exactly its classes that are anomaly classes and in no
\* normal bucket; a file whose classes do not meet it is in the normal
\* bucket of exactly its classes and in no abnormal bucket; no bucket holds a
\* file twice.
C7_PerClassBuckets ==
    (mode = "classify" /\ clPc = "perclass") =>
        \A file \in FileNames : \A cls \in ObjectClasses :
            LET own  == UniqueCls(AnnOf(file))
                hit  == own \cap Range(anomaly) # {}
            IN  /\ Count(Bucket(abnormal_files, cls), file)
                      = IF hit /\ cls \in own /\ cls \in Range(anomaly) THEN 1 ELSE 0
                /\ Count(Bucket(normal_files, cls), file)
                      = IF ~hit /\ cls \in own THEN 1 ELSE 0

\* C7 witness: a file with classes {gun, knife} classified against the
\* anomaly set {gun}, and a normal file filed under its class.
C7_Witness ==
    /\ mode = "classify" /\ clPc = "perclass"
    /\ anomaly = <<"gun">>
    /\ \E file \in FileNames :
          /\ UniqueCls(AnnOf(file)) = {"gun", "knife"}
          /\ Count(Bucket(abnormal_files, "gun"), file) = 1
          /\ Count(Bucket(abnormal_files, "knife"), file) = 0
    /\ \E file \in FileNames :
          /\ UniqueCls(AnnOf(file)) = {"knife"}
          /\ Count(Bucket(normal_files, "knife"), file) = 1

(***************************************************************************)
(* center_crop, as export applies it to view 0.                            *)
(***************************************************************************)
CropH == 590
CropW == 440

Near(k) == {n \in (k - Slack)..(k + Slack) : n >= 1}
Heights == Near(0) \cup Near(CropH \div 2) \cup Near(CropH) \cup Near(2 * CropH)
Widths == Near(0) \cup Near(CropW \div 2) \cup Near(CropW) \cup Near(2 * CropW)

\* The origin of line 33 computed from the wrong axis of img.shape.
CropOriginSwapped(size, other, c) == other \div 2 - c \div 2

\* lines 33-34: img_shape[k] // 2 - c // 2, along the axis of length `size`
\* (`other` is the length of the other axis)
CropOrigin(size, other, c) == size \div 2 - c \div 2

\* line 36: the indices img[o : o + c] selects along an axis of length `size`,
\* as the first index selected and their number
SliceStart(size, o, c) == PyBound(size, o)
SliceCount(size, o, c) == Max(PyBound(size, o + c) - PyBound(size, o), 0)

\* center_crop(img, h, w) on an image of shape (H, W)
center_crop(H, W, h, w) ==
    LET x == CropOrigin(W, H, w)
        y == CropOrigin(H, W, h)
    IN  [top  |-> SliceStart(H, y, h), rows |-> SliceCount(H, y, h),
         left |-> SliceStart(W, x, w), cols |-> SliceCount(W, x, w)]

InitCrop ==
    /\ mode = "crop"
    /\ FsIdle
    /\ CopyIdle
    /\ SplitIdle
    /\ ExportIdle
    /\ ClassIdle
    /\ WfIdle
    /\ imgH \in Heights /\ imgW \in Widths
    /\ crPc = "start"
    /\ crop_img = [top |-> 0, left |-> 0, rows |-> 0, cols |-> 0]

\* lines 75-77: rgb = center_crop(rgb, 590, 440)
CenterCrop ==
    /\ mode = "crop" /\ crPc = "start"
    /\ crop_img' = center_crop(imgH, imgW, CropH, CropW)
    /\ crPc' = "done"
    /\ UNCHANGED <<mode, imgH, imgW>>
    /\ UNCHANGED otherCrop

NextCrop == CenterCrop

SpecCrop == InitCrop /\ [][NextCrop]_vars

\* C10 as stated: for a frame of any size the window is 590 x 440 with its
\* top-left corner at row H//2 - 295 and column W//2 - 220.
C10_CropAnySize ==
    (mode = "crop" /\ crPc = "done") =>
        /\ crop_img.rows = 590 /\ crop_img.cols = 440
        /\ crop_img.top = imgH \div 2 - 295
        /\ crop_img.left = imgW \div 2 - 220

\* C10 amended: for a frame of at least 590 rows and 440 columns the window
\* is 590 x 440 with its top-left corner at row H//2 - 295 and column
\* W//2 - 220.
C10_CropLargeEnough ==
    (mode = "crop" /\ crPc = "done" /\ imgH >= 590 /\ imgW >= 440) =>
        /\ crop_img.rows = 590 /\ crop_img.cols = 440
        /\ crop_img.top = imgH \div 2 - 295
        /\ crop_img.left = imgW \div 2 - 220

\* C10 witness: a frame strictly larger than the crop, of odd height, cropped.
C10_Witness ==
    /\ mode = "crop" /\ crPc = "done"
    /\ imgH = 593 /\ imgW = 442
    /\ crop_img = [top |-> 1, left |-> 1, rows |-> 590, cols |-> 440]

(***************************************************************************)
(* The combined workflow of __main__ (lines 442-449): clean_before_copy,   *)
(* export_sd3_hif_form_dir, split_exported_sd3_hif, copy_sd3_dataset and   *)
(* copy_sixray_easy, one call after the other.  "exp" is the export        *)
(* directory of the containers, "ds" the dataset tree and "six" the        *)
(* external annotated corpus.                                              *)
(***************************************************************************)
MaxExtNames == 1    \* distinct base names of the external images
MaxExtObjects == 1  \* objects in the annotation of an external image

DropHifPercent == 30

Splits == {"train", "test"}
ExtNames == {ImageName("P", i) : i \in 1..MaxExtNames}

\* sixray / split / "JPEGImages" and sixray / split / "Annotations"
ImageDir(split) == Join(Join("six", split), "JPEGImages")
XmlDir(split) == Join(Join("six", split), "Annotations")

\* The directories os.walk visits under the image directory of a split.
WalkDirs(split) == {ImageDir(split), Join(ImageDir(split), "sub")}

\* os.path.basename(p)
Basename(p) ==
    LET slashes == {i \in 1..Len(p) : SubSeq(p, i, i) = "/"}
        last == IF slashes = {} THEN 0
                ELSE CHOOSE i \in slashes : \A j \in slashes : j <= i
    IN  SubSeq(p, last + 1, Len(p))

\* list(map(os.path.basename, files))
Basenames(files) == [i \in 1..Len(files) |-> Basename(files[i])]

\* os.path.basename(file).replace(".jpg", ".xml"), for a name that holds
\* ".jpg" at its end only
XmlName(p) == SubSeq(Basename(p), 1, Len(Basename(p)) - 4) \o ".xml"

\* crawl(root, ".jpg"): the paths of the files under the image directory
\* of a split, whatever their depth
Crawl(f, split) == UNION {{Join(d, n) : n \in DOMAIN f[d]} : d \in WalkDirs(split)}

\* d is the directory root or lies under it
IsUnder(d, root) ==
    \/ d = root
    \/ Len(d) > Len(root) /\ SubSeq(d, 1, Len(root) + 1) = root \o "/"

\* clean_before_copy: shutil.rmtree(dataset_path, ignore_errors=True)
CleanTree(f, root) == [d \in DOMAIN f |-> IF IsUnder(d, root) THEN EmptyDir ELSE f[d]]
CleanDirs(ex, root) == {d \in ex : ~IsUnder(d, root)}

\* lines 445 and 157: int(len(files) * (1. - discard)) for discard = 30 / 100.
\* (the float product truncates to this quotient for every n up to 13)
WfKeep(n) == (n * (100 - DropHifPercent)) \div 100

\* lines 447 and 163: int(len(files) * .8) (likewise for every n up to 13)
WfPortion(n) == (n * 8) \div 10

\* lines 157-158 and 163-164 as the workflow calls the split
WfKept(shuffled) == PyTake(shuffled, WfKeep(Len(shuffled)))
WfFiles2Del(shuffled) ==
    LET files == WfKept(shuffled) IN PyDrop(files, WfKeep(Len(files)))
WfFirstHalf(shuffled) ==
    LET files == WfKept(shuffled) IN PyTake(files, WfPortion(Len(files)))
WfSecondHalf(shuffled) ==
    LET files == WfKept(shuffled) IN PyDrop(files, WfPortion(Len(files)))

\* lines 204-211 and 213-220: one segregation loop over the crawled files
RECURSIVE SegregateFiles(_, _, _, _, _)
SegregateFiles(f, xmlDir, files, classes, acc) ==
    IF files = <<>> THEN acc
    ELSE SegregateFiles(f, xmlDir, Tail(files), classes,
            IF AnyIn(f[xmlDir][XmlName(Head(files))], classes)
            THEN [acc EXCEPT !.abnormal = Append(@, Head(files))]
            ELSE [acc EXCEPT !.normal = Append(@, Head(files))])

\* lines 205-206: open(xml) succeeds for every crawled file of the split
CanOpenAll(f, split) ==
    \A p \in Crawl(f, split) : IsFile(f, XmlDir(split), XmlName(p))

\* lines 402-407: copy_sd3_dataset, the listings given in the orders l1, l2
copy_sd3_dataset(f, ex, l1, l2) ==
    LET f1 == copy_files(f, Makedirs(ex, "ds/train/0.normal"), "exp/train", l1,
                         "ds/train/0.normal", FALSE, FALSE)
    IN  copy_files(f1, Makedirs(ex, "ds/test/0.normal"), "exp/test", l2,
                   "ds/test/0.normal", FALSE, FALSE)

\* lines 191-193 and 223-229: where each of the four lists is copied to
NormalTrainDest == "ds/train/0.normal"
AbnormalTrainDest == "ds/test/1.abnormal"
NormalTestDest == "ds/test/0.normal"
AbnormalTestDest == "ds/test/1.abnormal"

\* The annotation an external image name may have: none, or a list of objects.
AnnChoices == {<<"missing">>} \cup SeqsUpTo(ObjectClasses, MaxExtObjects)

\* The file system the workflow starts from: the images `img` of each split,
\* each holding its own path as content, the annotations `ann` of each split,
\* and leftovers of an earlier run when `stale`.
WorkflowFs(img, ann, stale, expThere) ==
    [d \in FileDirs |->
        IF \E s \in Splits : d \in WalkDirs(s)
        THEN [n \in {n \in ExtNames : \E s \in Splits : Join(d, n) \in img[s]} |-> Join(d, n)]
        ELSE IF \E s \in Splits : d = XmlDir(s)
        THEN LET s == CHOOSE s \in Splits : d = XmlDir(s)
                 named == {n \in ExtNames : ann[s][n] # <<"missing">>}
             IN  [x \in {XmlName(n) : n \in named} |->
                    LET n == CHOOSE n \in named : XmlName(n) = x
                    IN  Xml([filename |-> n, objects |-> ann[s][n]])]
        ELSE IF stale /\ (IsUnder(d, "ds") \/ (d = "exp" /\ expThere))
        THEN [n \in {"old.jpg"} |-> "stale"]
        ELSE EmptyDir]

InitWorkflow ==
    /\ mode = "workflow"
    /\ \E img \in [Splits -> SUBSET UNION {Crawl([d \in FileDirs |-> [n \in ExtNames |-> n]], s) : s \in Splits}],
          ann \in [Splits -> [ExtNames -> AnnChoices]],
          stale \in BOOLEAN, expThere \in BOOLEAN :
            /\ \A s \in Splits : img[s] \subseteq Crawl([d \in FileDirs |-> [n \in ExtNames |-> n]], s)
            /\ \A s \in Splits, n \in ExtNames :
                  (\A d \in WalkDirs(s) : Join(d, n) \notin img[s]) => ann[s][n] = <<"missing">>
            /\ fs = WorkflowFs(img, ann, stale, expThere)
            /\ exists = {d \in FileDirs : IsUnder(d, "six")}
                          \cup (IF expThere THEN {"exp"} ELSE {})
                          \cup (IF stale THEN {d \in FileDirs : IsUnder(d, "ds")} ELSE {})
    /\ ioLog = {}
    /\ views \in [Containers -> 0..MaxViews]
    /\ anomaly \in AnomalyTuples
    /\ anns = <<>> /\ clPc = "start"
    /\ normal_train = <<>> /\ abnormal_train = <<>>
    /\ normal_files = EmptyDir /\ abnormal_files = EmptyDir
    /\ cpSrc = "src" /\ cpDest = "dst" /\ cpFiles = <<>>
    /\ cpDel = FALSE /\ cpOw = FALSE
    /\ cpI = 1 /\ cpPc = "idle" /\ cpCalls = 0 /\ cpCopied = {}
    /\ fs0 = [d \in FileDirs |-> EmptyDir] /\ exists0 = {}
    /\ SplitIdle
    /\ ExportIdle
    /\ CropIdle
    /\ WfIdle

\* lines 442-443: clean_before_copy(sixray_sd3_anomaly_dataset)
WfClean ==
    /\ mode = "workflow" /\ wfPc = "start"
    /\ fs' = CleanTree(fs, "ds")
    /\ exists' = CleanDirs(exists, "ds")
    /\ wfPc' = "export"
    /\ UNCHANGED <<spFiles, first_half, second_half, files2del,
                   normal_train, abnormal_train, normal_test, abnormal_test>>
    /\ UNCHANGED otherWorkflow

\* lines 446 and 98: shutil.rmtree raises on an export directory that is not there
WfExportAbort ==
    /\ mode = "workflow" /\ wfPc = "export"
    /\ "exp" \notin exists
    /\ wfPc' = "aborted"
    /\ UNCHANGED <<fs, exists, spFiles, first_half, second_half, files2del,
                   normal_train, abnormal_train, normal_test, abnormal_test>>
    /\ UNCHANGED otherWorkflow

\* line 446: export_sd3_hif_form_dir(..., remove_before_export=True)
WfExport ==
    /\ mode = "workflow" /\ wfPc = "export"
    /\ "exp" \in exists
    /\ exists' = RmtreeDirs(exists, "exp") \cup {"exp"}
    /\ fs' = ExportFrom(Rmtree(fs, "exp"), exists', views, 1, "exp")
    /\ wfPc' = "split"
    /\ UNCHANGED <<spFiles, first_half, second_half, files2del,
                   normal_train, abnormal_train, normal_test, abnormal_test>>
    /\ UNCHANGED otherWorkflow

\* line 447: split_exported_sd3_hif(sd3_img_export_path, .8, discard=discard_sd3)
WfSplit(listing) ==
    LET shuffled == Shuffle(listing) IN
    /\ mode = "workflow" /\ wfPc = "split"
    /\ spFiles' = shuffled
    /\ first_half' = WfFirstHalf(shuffled)
    /\ second_half' = WfSecondHalf(shuffled)
    /\ files2del' = WfFiles2Del(shuffled)
    /\ fs' = MoveAndDelete(fs, exists, "exp", WfFirstHalf(shuffled),
                           WfSecondHalf(shuffled), WfFiles2Del(shuffled))
    /\ exists' = Makedirs(Makedirs(exists, "exp/train"), "exp/test")
    /\ wfPc' = "sd3"
    /\ UNCHANGED <<normal_train, abnormal_train, normal_test, abnormal_test>>
    /\ UNCHANGED otherWorkflow

\* line 448: copy_sd3_dataset(sd3_img_export_path, sixray_sd3_anomaly_dataset)
WfCopySd3(l1, l2) ==
    /\ mode = "workflow" /\ wfPc = "sd3"
    /\ fs' = copy_sd3_dataset(fs, exists, l1, l2)
    /\ exists' = Makedirs(Makedirs(exists, "ds/train/0.normal"), "ds/test/0.normal")
    /\ wfPc' = "segregate"
    /\ UNCHANGED <<spFiles, first_half, second_half, files2del,
                   normal_train, abnormal_train, normal_test, abnormal_test>>
    /\ UNCHANGED otherWorkflow

\* lines 188-189 and 198-220 of copy_sixray_easy: the crawls, in the orders
\* os.walk gives, and the two segregation loops
WfSegregate(trainFiles, testFiles) ==
    /\ mode = "workflow" /\ wfPc = "segregate"
    /\ CanOpenAll(fs, "train") /\ CanOpenAll(fs, "test")
    /\ LET r == SegregateFiles(fs, XmlDir("train"), trainFiles, anomaly,
                               [normal |-> <<>>, abnormal |-> <<>>])
           t == SegregateFiles(fs, XmlDir("test"), testFiles, anomaly,
                               [normal |-> <<>>, abnormal |-> <<>>])
       IN  /\ normal_train' = r.normal /\ abnormal_train' = r.abnormal
           /\ normal_test' = t.normal /\ abnormal_test' = t.abnormal
    /\ wfPc' = "copy_normal_train"
    /\ UNCHANGED <<fs, exists, spFiles, first_half, second_half, files2del>>
    /\ UNCHANGED otherWorkflow

\* lines 206 and 215: open(xml) raises on an image without annotation file
WfSegregateAbort ==
    /\ mode = "workflow" /\ wfPc = "segregate"
    /\ ~(CanOpenAll(fs, "train") /\ CanOpenAll(fs, "test"))
    /\ wfPc' = "aborted"
    /\ UNCHANGED <<fs, exists, spFiles, first_half, second_half, files2del,
                   normal_train, abnormal_train, normal_test, abnormal_test>>
    /\ UNCHANGED otherWorkflow

\* One of the four calls of copy_files at lines 223-229
WfCopy(pc, split, files, dest, next) ==
    /\ mode = "workflow" /\ wfPc = pc
    /\ exists' = Makedirs(exists, dest)
    /\ fs' = copy_files(fs, exists', ImageDir(split), Basenames(files), dest, FALSE, FALSE)
    /\ wfPc' = next
    /\ UNCHANGED <<spFiles, first_half, second_half, files2del,
                   normal_train, abnormal_train, normal_test, abnormal_test>>
    /\ UNCHANGED otherWorkflow

\* line 223
WfCopyNormalTrain ==
    WfCopy("copy_normal_train", "train", normal_train, NormalTrainDest, "copy_abnormal_train")

\* line 225
WfCopyAbnormalTrain ==
    WfCopy("copy_abnormal_train", "train", abnormal_train, AbnormalTrainDest, "copy_normal_test")

\* line 227
WfCopyNormalTest ==
    WfCopy("copy_normal_test", "test", normal_test, NormalTestDest, "copy_abnormal_test")

\* line 229
WfCopyAbnormalTest ==
    WfCopy("copy_abnormal_test", "test", abnormal_test, AbnormalTestDest, "done")

NextWorkflow ==
    \/ WfClean
    \/ WfExportAbort
    \/ WfExport
    \/ \E listing \in Orderings(ListDir(fs, exists, "exp")) : WfSplit(listing)
    \/ \E l1 \in Orderings(ListDir(fs, exists, "exp/train")),
          l2 \in Orderings(ListDir(fs, exists, "exp/test")) : WfCopySd3(l1, l2)
    \/ \E trainFiles \in Orderings(Crawl(fs, "train")),
          testFiles \in Orderings(Crawl(fs, "test")) : WfSegregate(trainFiles, testFiles)
    \/ WfSegregateAbort
    \/ WfCopyNormalTrain
    \/ WfCopyAbnormalTrain
    \/ WfCopyNormalTest
    \/ WfCopyAbnormalTest

SpecWorkflow == InitWorkflow /\ [][NextWorkflow]_vars

(***************************************************************************)
(* Claims about the combined workflow.                                     *)
(***************************************************************************)
\* The directories of the dataset tree.
DsDirs == {d \in FileDirs : IsUnder(d, "ds")}

\* The external images classified abnormal, of either split.  An external
\* image is identified by its path, which is also its content.
ExtAbnormal == Range(abnormal_train) \cup Range(abnormal_test)

\* Directory d holds a copy of the external image p.
HoldsImage(d, p) == \E n \in DOMAIN fs[d] : fs[d][n] = p

\* When the workflow is done, test/1.abnormal holds a copy of every image
\* classified abnormal, under the image's base name.
AbnormalAllCopied ==
    wfPc = "done" =>
        \A p \in ExtAbnormal :
            /\ IsFile(fs, "ds/test/1.abnormal", Basename(p))
            /\ fs["ds/test/1.abnormal"][Basename(p)] = p

\* No other directory of the dataset tree ever holds a copy of an image
\* classified abnormal.
AbnormalNowhereElse ==
    \A p \in ExtAbnormal : \A d \in DsDirs \ {"ds/test/1.abnormal"} : ~HoldsImage(d, p)

\* train/1.abnormal is never created and never holds a file.
NoTrainAbnormalBucket ==
    fs["ds/train/1.abnormal"] = EmptyDir /\ "ds/train/1.abnormal" \notin exists

\* Every file of train/0.normal is a frame the split moved to the train part
\* of the exported pool or a copy of an external train image classified normal.
TrainNormalOrigin ==
    \A n \in DOMAIN fs["ds/train/0.normal"] :
        \/ /\ n \in Range(first_half)
           /\ fs["ds/train/0.normal"][n] \in {FrameContent(i) : i \in 0..MaxViews}
        \/ /\ fs["ds/train/0.normal"][n] \in Range(normal_train)
           /\ fs["ds/train/0.normal"][n] \in Crawl(fs, "train")

\* C11: in the combined workflow, once the dataset tree is cleaned, every
\* external image classified abnormal, of the train or the test split, is
\* copied to test/1.abnormal and to no other directory of the dataset tree,
\* train/1.abnormal never holds a file, and train/0.normal holds only
\* container-derived train frames and external train images classified
\* normal.
C11_TrainHoldsOnlyNormal ==
    (mode = "workflow" /\ wfPc # "start") =>
        /\ AbnormalAllCopied
        /\ AbnormalNowhereElse
        /\ NoTrainAbnormalBucket
        /\ TrainNormalOrigin

(***************************************************************************)
(* The whole model.                                                        *)
(***************************************************************************)
Init ==
    InitCopy \/ InitSplit \/ InitExport \/ InitClassify \/ InitCrop \/ InitWorkflow

Next ==
    NextCopy \/ NextSplit \/ NextExport \/ NextClassify \/ NextCrop \/ NextWorkflow

Spec == Init /\ [][Next]_vars

====
